---- MODULE Spec2Model ----
(***************************************************************************)
(* bookmark-garden: the tag taxonomy (classification store), the           *)
(* verification card's status computation, the approval workflow of the    *)
(* admin verify page, the public gallery's listing and filtering, and the  *)
(* auth route middleware.                                                   *)
(*                                                                         *)
(* The Appwrite backend is the environment: a document collection of tags  *)
(* (tags), one of bookmarks (bookmarks), and calls that return or fail.    *)
(* An async handler is cut at its network awaits: one action runs the      *)
(* handler from one await to the next (JavaScript runs the code between    *)
(* two awaits of network calls without interleaving).                      *)
(***************************************************************************)
EXTENDS Integers, Sequences, FiniteSets, TLC

VARIABLES
  tags,             \* backend: the classifications collection, in creation order; $id = index
  bookmarks,        \* backend: the bookmarks collection, keyed by $id
  classifications,  \* store: the cached tag documents, in Map insertion order
  isLoading,        \* store: a listDocuments request of the store is in flight
  hasLoaded,        \* store: the last load succeeded
  error,            \* store: the last load failed
  fetchOwner,       \* who awaits the store's request in flight: NoId none, PageOwner, or a bookmark id
  pendingBookmarks, \* verify page: the fetched cards, each with its parsed suggestion
  approvalState,    \* verify page: per bookmark {approving, error}
  proc,             \* verify page: the handler invocation in flight per bookmark
  alertShown,       \* VerifyCard.approve showed its "Approval failed" alert
  galleryBookmarks, \* index page: the bookmarks fetched by 'bookmarks-list'
  authNav,          \* auth middleware: the navigation being decided
  filterIn,         \* index page: the inputs of filteredBookmarks
  filterOut,        \* index page: the value of filteredBookmarks
  descIn,           \* store: the inputs of isDescendantOf
  descOut           \* store: the value of isDescendantOf

wfVars == <<tags, bookmarks, classifications, isLoading, hasLoaded, error, fetchOwner,
            pendingBookmarks, approvalState, proc, alertShown>>
pureVars == <<authNav, filterIn, filterOut, descIn, descOut>>
vars == <<tags, bookmarks, classifications, isLoading, hasLoaded, error, fetchOwner,
          pendingBookmarks, approvalState, proc, alertShown, galleryBookmarks,
          authNav, filterIn, filterOut, descIn, descOut>>

(***************************************************************************)
(* Bounds.                                                                 *)
(***************************************************************************)
NumBookmarks == 2     \* bookmark documents
MaxL3 == 2            \* suggested level-3 names per bookmark
MaxSuggested == 4     \* suggested names over all bookmarks when the page opens
MaxTags == 9          \* tag documents the backend holds at most

BookmarkIds == 1..NumBookmarks
Names == {"a", "b"}   \* tag names the suggestions and taxonomies draw from
NoName == ""          \* a missing name: JavaScript's null / undefined / ""
NoId == 0             \* a missing id: null / undefined
PageOwner == NumBookmarks + 1   \* the store request was started by the page, not by an approval

(***************************************************************************)
(* Sequence helpers (Array.prototype.filter / includes / map).             *)
(***************************************************************************)
Range(s) == {s[i] : i \in DOMAIN s}

Includes(s, x) == \E i \in DOMAIN s : s[i] = x

RECURSIVE SelectSeqBy(_, _)
SelectSeqBy(s, keep) ==
  IF s = <<>> THEN <<>>
  ELSE IF Head(s) \in keep THEN <<Head(s)>> \o SelectSeqBy(Tail(s), keep)
       ELSE SelectSeqBy(Tail(s), keep)

SeqsUpTo(S, n) == UNION {[1..k -> S] : k \in 0..n}

(***************************************************************************)
(* Documents.                                                              *)
(***************************************************************************)
\* IClassification; NoTag stands for find()'s undefined
Tag(id, name, level, parentIds) ==
  [id |-> id, name |-> name, level |-> level, parentIds |-> parentIds]

NoTag == Tag(NoId, NoName, 0, <<>>)

\* ParsedLlmClassification
Llm(l1, l2, l3) == [level1TagName |-> l1, level2TagName |-> l2, level3TagNames |-> l3]

NoLlm == Llm(NoName, NoName, <<>>)

(***************************************************************************)
(* Classification store: lookups.                                          *)
(***************************************************************************)
\* Array.from(map.values()).find(c => c.name === name && c.level === level)
findClassificationByNameAndLevel(cls, name, level) ==
  LET hits == {i \in DOMAIN cls : cls[i].name = name /\ cls[i].level = level}
  IN IF hits = {} THEN NoTag
     ELSE cls[CHOOSE i \in hits : \A j \in hits : i <= j]

\* classifications.get(id)
getClassification(cls, id) ==
  LET hits == {i \in DOMAIN cls : cls[i].id = id}
  IN IF hits = {} THEN NoTag ELSE cls[CHOOSE i \in hits : TRUE]

(***************************************************************************)
(* VerifyCard: the status of a card's LLM suggestion against the store.    *)
(***************************************************************************)
\* ClassificationStatus; NullStatus stands for level1 / level2 = null
ClassificationStatus(name, status, existingId, intendedParentId, intendedLevel, hierarchyValid) ==
  [name |-> name, status |-> status, existingId |-> existingId,
   intendedParentId |-> intendedParentId, intendedLevel |-> intendedLevel,
   hierarchyValid |-> hierarchyValid]

NullStatus == ClassificationStatus(NoName, "null", NoId, NoId, 0, FALSE)

\* the initial `result` of llmClassificationStatus
EmptyStatus ==
  [level1 |-> NullStatus, level2 |-> NullStatus, level3 |-> <<>>,
   isValidOverallHierarchy |-> TRUE, hasSuggestion |-> FALSE]

\* --- Level 1 Check ---
Level1Status(cls, llm) ==
  LET existingL1 == findClassificationByNameAndLevel(cls, llm.level1TagName, 1)
  IN ClassificationStatus(llm.level1TagName,
                          IF existingL1 # NoTag THEN "existing" ELSE "new",
                          existingL1.id, NoId, 1, TRUE)

\* --- Level 2 Check ---: the status entry, and whether the check found a mismatch
Level2Check(cls, llm, level1) ==
  LET l2Name == llm.level2TagName
      existingL2 == findClassificationByNameAndLevel(cls, l2Name, 2)
      currentL1Id == level1.existingId
      demoted == existingL2 # NoTag /\ currentL1Id = NoId /\ level1.status = "new"
      parentIsValid ==
        IF existingL2 = NoTag THEN TRUE
        ELSE IF currentL1Id # NoId THEN Includes(existingL2.parentIds, currentL1Id)
        ELSE IF level1.status = "new" THEN FALSE
        ELSE TRUE
      l2Status == IF existingL2 # NoTag /\ ~demoted THEN "existing" ELSE "new"
      l2Id == IF demoted THEN NoId ELSE existingL2.id
  IN [entry |-> ClassificationStatus(l2Name, l2Status, l2Id, currentL1Id, 2, parentIsValid),
      mismatch |-> existingL2 # NoTag /\ currentL1Id # NoId /\ ~parentIsValid]

\* a slip: an existing L3 under another L2 is taken as new instead of flagged
Level3Check_Unflagged(cls, l3Name, level2) ==
  LET existingL3 == findClassificationByNameAndLevel(cls, l3Name, 3)
      intendedL2ParentId == IF level2.status = "new" THEN NoId ELSE level2.existingId
      parentIsValidL3 ==
        IF existingL3 = NoTag THEN TRUE
        ELSE intendedL2ParentId # NoId /\ Includes(existingL3.parentIds, intendedL2ParentId)
      l3Status == IF existingL3 # NoTag /\ parentIsValidL3 THEN "existing" ELSE "new"
  IN [entry |-> ClassificationStatus(l3Name, l3Status,
                                     IF l3Status = "existing" THEN existingL3.id ELSE NoId,
                                     intendedL2ParentId, 3, parentIsValidL3),
      mismatch |-> FALSE]

\* --- Level 3 Check ---, one suggested name: the entry, and whether it is a mismatch
Level3Check(cls, l3Name, level2) ==
  LET existingL3 == findClassificationByNameAndLevel(cls, l3Name, 3)
      intendedL2ParentId == IF level2.status = "new" THEN NoId ELSE level2.existingId
      demoted == /\ existingL3 # NoTag
                 /\ intendedL2ParentId = NoId
                 /\ (level2.status = "new" \/ ~level2.hierarchyValid)
      parentIsValidL3 ==
        IF existingL3 = NoTag THEN TRUE
        ELSE IF intendedL2ParentId # NoId THEN Includes(existingL3.parentIds, intendedL2ParentId)
        ELSE IF level2.status = "new" THEN FALSE
        ELSE IF ~level2.hierarchyValid THEN FALSE
        ELSE TRUE
      l3Status == IF existingL3 # NoTag /\ ~demoted THEN "existing" ELSE "new"
      l3Id == IF demoted THEN NoId ELSE existingL3.id
  IN [entry |-> ClassificationStatus(l3Name, l3Status,
                                     IF l3Status = "existing" /\ parentIsValidL3 THEN l3Id ELSE NoId,
                                     intendedL2ParentId, 3, parentIsValidL3),
      mismatch |-> existingL3 # NoTag /\ intendedL2ParentId # NoId /\ ~parentIsValidL3]

\* a slip: the forced entry is left valid
ForcedNewL3_Valid(l3Name) == ClassificationStatus(l3Name, "new", NoId, NoId, 3, TRUE)

\* the entry pushed for each suggested L3 name when L3 cannot be checked
ForcedNewL3(l3Name) == ClassificationStatus(l3Name, "new", NoId, NoId, 3, FALSE)

\* const llmClassificationStatus = computed(...)
llmClassificationStatus(cls, loaded, loading, llm) ==
  IF ~loaded /\ ~loading
    THEN [EmptyStatus EXCEPT !.isValidOverallHierarchy = FALSE, !.hasSuggestion = (llm # NoLlm)]
  ELSE IF loading
    THEN [EmptyStatus EXCEPT !.isValidOverallHierarchy = FALSE, !.hasSuggestion = (llm # NoLlm)]
  ELSE IF llm.level1TagName = NoName
    THEN EmptyStatus
  ELSE
    LET level1 == Level1Status(cls, llm)
        l2 == Level2Check(cls, llm, level1)
        level2 == IF llm.level2TagName # NoName THEN l2.entry ELSE NullStatus
        l2Mismatch == llm.level2TagName # NoName /\ l2.mismatch
        names == llm.level3TagNames
        canCheckL3 == level2 # NullStatus /\ (level2.status = "new" \/ level2.hierarchyValid)
        l3 == [i \in DOMAIN names |-> Level3Check(cls, names[i], level2)]
    IN IF Len(names) > 0 /\ canCheckL3
         THEN [level1 |-> level1, level2 |-> level2,
               level3 |-> [i \in DOMAIN names |-> l3[i].entry],
               isValidOverallHierarchy |->
                  ~l2Mismatch /\ \A i \in DOMAIN names : ~l3[i].mismatch,
               hasSuggestion |-> TRUE]
       ELSE IF Len(names) > 0
         THEN [level1 |-> level1, level2 |-> level2,
               level3 |-> [i \in DOMAIN names |-> ForcedNewL3(names[i])],
               isValidOverallHierarchy |-> FALSE,
               hasSuggestion |-> TRUE]
       ELSE [level1 |-> level1, level2 |-> level2, level3 |-> <<>>,
             isValidOverallHierarchy |-> ~l2Mismatch,
             hasSuggestion |-> TRUE]

(***************************************************************************)
(* Backend documents and the verify page's state.                          *)
(***************************************************************************)
\* a bookmark document; status "none": no such document yet
Bookmark(status, llm, level1Id, level2Ids, level3Ids) ==
  [status |-> status, llmClassification |-> llm,
   level1Id |-> level1Id, level2Ids |-> level2Ids, level3Ids |-> level3Ids]

\* handleSubmit's bookmarkData: a new document, status 'pending'
SubmittedBookmark == Bookmark("pending", NoLlm, NoId, <<>>, <<>>)

\* Query.equal('status', 'pending') + Query.orderDesc('$createdAt'), mapped to cards
RECURSIVE PendingFrom(_, _)
PendingFrom(bms, n) ==
  IF n = 0 THEN <<>>
  ELSE IF bms[n].status = "pending"
         THEN <<[id |-> n, parsedLlmClassification |-> bms[n].llmClassification]>>
              \o PendingFrom(bms, n - 1)
       ELSE PendingFrom(bms, n - 1)

ListPending(bms) == PendingFrom(bms, NumBookmarks)

\* the card of bookmark b on the page, if any
HasCard(b) == \E i \in DOMAIN pendingBookmarks : pendingBookmarks[i].id = b

CardOf(b) == pendingBookmarks[CHOOSE i \in DOMAIN pendingBookmarks : pendingBookmarks[i].id = b]

\* approvalState[bookmarkId] ?? {approving: false, error: null}
NoApproval == [approving |-> FALSE, error |-> ""]

\* approvalState.value = {}
ResetApprovalState == [b \in BookmarkIds |-> NoApproval]

\* function setApprovalStatus(bookmarkId, approving, error = null)
setApprovalStatus(as, bookmarkId, approving, err) ==
  [as EXCEPT ![bookmarkId] = [approving |-> approving, error |-> err]]

\* the store's documents as listDocuments returns them
StoreDocs(tgs) == tgs

(***************************************************************************)
(* The approval handler's invocation: its locals and its position.         *)
(***************************************************************************)
IdleProc ==
  [pc |-> "idle", status |-> EmptyStatus, k |-> 0,
   finalL1Id |-> NoId, finalL2Id |-> NoId, finalL3Ids |-> <<>>, newTagId |-> NoId,
   created |-> <<>>]   \* history: the ids of the tags this invocation created, in order

\* the findOrCreateTag calls handleApproveBookmark makes for a status, in order
NumCalls(st) == 1 + (IF st.level2 # NullStatus THEN 1 + Len(st.level3) ELSE 0)

CallLevel(p) == IF p.k = 1 THEN 1 ELSE IF p.k = 2 THEN 2 ELSE 3

CallName(p) ==
  IF p.k = 1 THEN p.status.level1.name
  ELSE IF p.k = 2 THEN p.status.level2.name
  ELSE p.status.level3[p.k - 2].name

\* a slip: every child is created under the level-1 tag
CallParentIds_UnderL1(p) ==
  IF p.k = 1 THEN <<>> ELSE <<p.finalL1Id>>

\* [], [ finalL1Id ], [ finalL2Id ]
CallParentIds(p) ==
  IF p.k = 1 THEN <<>> ELSE IF p.k = 2 THEN <<p.finalL1Id>> ELSE <<p.finalL2Id>>

\* a slip: unshift instead of push
Resolved_Unshift(p, id) ==
  IF p.k = 1 THEN [p EXCEPT !.finalL1Id = id, !.k = 2, !.newTagId = NoId]
  ELSE IF p.k = 2 THEN [p EXCEPT !.finalL2Id = id, !.k = 3, !.newTagId = NoId]
  ELSE [p EXCEPT !.finalL3Ids = <<id>> \o @, !.k = @ + 1, !.newTagId = NoId]

\* finalL1Id = ..., finalL2Id = ..., finalL3Ids.push(l3Id); then the next call
Resolved(p, id) ==
  IF p.k = 1 THEN [p EXCEPT !.finalL1Id = id, !.k = 2, !.newTagId = NoId]
  ELSE IF p.k = 2 THEN [p EXCEPT !.finalL2Id = id, !.k = 3, !.newTagId = NoId]
  ELSE [p EXCEPT !.finalL3Ids = Append(@, id), !.k = @ + 1, !.newTagId = NoId]

\* findOrCreateTag up to its createDocument: the id found, null, or "create"
findOrCreateTag(cls, name, level, parentIds) ==
  LET existingTag == findClassificationByNameAndLevel(cls, name, level)
      requiredParentId == IF parentIds = <<>> THEN NoId ELSE parentIds[1]
  IN IF existingTag # NoTag
       THEN IF level > 1
              THEN IF requiredParentId = NoId THEN [kind |-> "null", id |-> NoId]
                   ELSE IF Includes(existingTag.parentIds, requiredParentId)
                          THEN [kind |-> "found", id |-> existingTag.id]
                   ELSE [kind |-> "create", id |-> NoId]
            ELSE [kind |-> "found", id |-> existingTag.id]
     ELSE [kind |-> "create", id |-> NoId]

\* the document findOrCreateTag creates
NewTagDoc(id, name, level, parentIds) ==
  Tag(id, name, level, IF level > 1 THEN SelectSeqBy(parentIds, Nat \ {NoId}) ELSE <<>>)

\* handleApproveBookmark from one network await to the next: "create" (awaiting
\* createDocument), "update" (awaiting updateDocument) or "throw" (a null id)
RECURSIVE RunToAwait(_, _)
RunToAwait(p, cls) ==
  IF p.k > NumCalls(p.status) THEN [p EXCEPT !.pc = "update"]
  ELSE LET r == findOrCreateTag(cls, CallName(p), CallLevel(p), CallParentIds(p))
       IN IF r.kind = "found" THEN RunToAwait(Resolved(p, r.id), cls)
          ELSE IF r.kind = "null" THEN [p EXCEPT !.pc = "throw"]
          ELSE [p EXCEPT !.pc = "create"]

\* updateData
UpdateData(p) ==
  Bookmark("verified", NoLlm, p.finalL1Id,
           IF p.finalL2Id # NoId THEN <<p.finalL2Id>> ELSE <<>>,
           p.finalL3Ids)

(***************************************************************************)
(* Verify page: actions.                                                   *)
(***************************************************************************)
\* a slip: the card takes the store for loaded
StatusOf_StoreTakenLoaded(b) ==
  llmClassificationStatus(classifications, TRUE, FALSE, CardOf(b).parsedLlmClassification)

\* the status the card of b computes now
StatusOf(b) ==
  llmClassificationStatus(classifications, hasLoaded, isLoading, CardOf(b).parsedLlmClassification)

\* refreshBookmarks(): the 'pendingBookmarks' handler resets approvalState and
\* fetches the pending documents (the list request itself is taken to return)
RefreshBookmarks(bms) ==
  /\ approvalState' = ResetApprovalState
  /\ pendingBookmarks' = ListPending(bms)

\* watch: [() => classificationStore.hasLoaded]: a change of hasLoaded re-runs the
\* 'pendingBookmarks' handler, which resets approvalState and fetches the list
WatchedApprovalState(as) == IF hasLoaded' # hasLoaded THEN ResetApprovalState ELSE as

WatchedPending ==
  IF hasLoaded' # hasLoaded
    THEN pendingBookmarks' = ListPending(bookmarks)
    ELSE UNCHANGED pendingBookmarks

\* the handler of b goes on with locals p: it awaits again, or its catch block runs
Continue(b, p) ==
  proc' = [proc EXCEPT ![b] = IF p.pc = "throw" THEN IdleProc ELSE p]

ContinueState(as, b, p) ==
  IF p.pc = "throw" THEN setApprovalStatus(as, b, FALSE, "Failed to find or create tag") ELSE as

\* a slip: the guard forgets the load in flight
ShouldFetch_NoLoadingCheck(forceRefresh) ==
  ~(hasLoaded /\ ~forceRefresh)

\* fetchClassifications(forceRefresh): the guard before any request
\* (loadClassifications() of the older store is the case forceRefresh = false)
ShouldFetch(forceRefresh) ==
  ~(isLoading \/ (hasLoaded /\ ~forceRefresh))

\* fetchClassifications(forceRefresh) up to its listDocuments, started by owner
StartFetch(owner) ==
  /\ isLoading' = TRUE
  /\ error' = FALSE
  /\ fetchOwner' = owner
  /\ UNCHANGED <<classifications, hasLoaded>>

\* fetchClassifications after its listDocuments: the try or the catch, and finally
EndFetch(ok) ==
  /\ classifications' = IF ok THEN StoreDocs(tags) ELSE classifications
  /\ hasLoaded' = ok
  /\ error' = ~ok
  /\ isLoading' = FALSE
  /\ fetchOwner' = NoId

\* async function handleRejectBookmark(bookmarkId), to its updateDocument
handleRejectBookmark(b) ==
  /\ approvalState' = setApprovalStatus(approvalState, b, TRUE, "")
  /\ proc' = [proc EXCEPT ![b] = [IdleProc EXCEPT !.pc = "reject"]]
  /\ UNCHANGED <<tags, bookmarks, classifications, isLoading, hasLoaded, error, fetchOwner,
                 pendingBookmarks, alertShown>>

\* async function handleApproveBookmark(bookmark, status), to its first await
handleApproveBookmark(b, status) ==
  IF ~status.isValidOverallHierarchy
    THEN /\ approvalState' = setApprovalStatus(approvalState, b, FALSE, "Hierarchy conflict detected.")
         /\ UNCHANGED <<tags, bookmarks, classifications, isLoading, hasLoaded, error, fetchOwner,
                        pendingBookmarks, proc, alertShown>>
  ELSE IF status.level1 = NullStatus
    THEN /\ approvalState' = setApprovalStatus(approvalState, b, FALSE, "L1 classification missing.")
         /\ UNCHANGED <<tags, bookmarks, classifications, isLoading, hasLoaded, error, fetchOwner,
                        pendingBookmarks, proc, alertShown>>
  ELSE LET p == RunToAwait([IdleProc EXCEPT !.status = status, !.k = 1], classifications)
       IN /\ Continue(b, p)
          /\ approvalState' = ContinueState(setApprovalStatus(approvalState, b, TRUE, ""), b, p)
          /\ UNCHANGED <<tags, bookmarks, classifications, isLoading, hasLoaded, error, fetchOwner,
                         pendingBookmarks, alertShown>>

\* a slip: the validity check alerts but does not return
approve_NoReturn(b) ==
  /\ HasCard(b)
  /\ proc[b].pc = "idle"
  /\ LET status == StatusOf(b)
     IN IF ~status.hasSuggestion
          THEN handleRejectBookmark(b)
          ELSE handleApproveBookmark(b, status)
  /\ UNCHANGED <<galleryBookmarks, pureVars>>

\* a slip: approve() does not ask whether there is a suggestion
approve_NoSuggestionCheck(b) ==
  /\ HasCard(b)
  /\ proc[b].pc = "idle"
  /\ LET status == StatusOf(b)
     IN IF ~status.isValidOverallHierarchy
          THEN /\ alertShown' = TRUE
               /\ IF ~hasLoaded /\ ~isLoading /\ ShouldFetch(FALSE)
                    THEN StartFetch(PageOwner)
                    ELSE UNCHANGED <<classifications, isLoading, hasLoaded, error, fetchOwner>>
               /\ UNCHANGED <<tags, bookmarks, pendingBookmarks, approvalState, proc>>
        ELSE handleApproveBookmark(b, status)
  /\ UNCHANGED <<galleryBookmarks, pureVars>>

\* VerifyCard: async function approve(); evaluating the computed status also
\* starts the store's fetch when the store is neither loaded nor loading
approve(b) ==
  /\ HasCard(b)
  /\ proc[b].pc = "idle"
  /\ LET status == StatusOf(b)
     IN IF ~status.isValidOverallHierarchy
          THEN /\ alertShown' = TRUE
               /\ IF ~hasLoaded /\ ~isLoading /\ ShouldFetch(FALSE)
                    THEN StartFetch(PageOwner)
                    ELSE UNCHANGED <<classifications, isLoading, hasLoaded, error, fetchOwner>>
               /\ UNCHANGED <<tags, bookmarks, pendingBookmarks, approvalState, proc>>
        ELSE IF ~status.hasSuggestion
          THEN handleRejectBookmark(b)
        ELSE handleApproveBookmark(b, status)
  /\ UNCHANGED <<galleryBookmarks, pureVars>>

\* VerifyCard: async function reject()
reject(b) ==
  /\ HasCard(b)
  /\ proc[b].pc = "idle"
  /\ handleRejectBookmark(b)
  /\ UNCHANGED <<galleryBookmarks, pureVars>>

\* a slip: a tag of that name and level the store holds is moved under the new
\* parent instead of a new tag being created
createDone_Reparents(b) ==
  /\ proc[b].pc = "create"
  /\ Len(tags) < MaxTags
  /\ LET p == proc[b]
         existingTag == findClassificationByNameAndLevel(classifications, CallName(p), CallLevel(p))
         newTagId == IF existingTag # NoTag THEN existingTag.id ELSE Len(tags) + 1
     IN /\ tags' = IF existingTag # NoTag
                     THEN [tags EXCEPT ![newTagId].parentIds = CallParentIds(p)]
                     ELSE Append(tags, NewTagDoc(newTagId, CallName(p), CallLevel(p), CallParentIds(p)))
        /\ IF ~ShouldFetch(TRUE)
             THEN LET q == RunToAwait(Resolved([p EXCEPT !.created = Append(@, newTagId)], newTagId),
                                      classifications)
                  IN /\ Continue(b, q)
                     /\ approvalState' = ContinueState(approvalState, b, q)
                     /\ UNCHANGED <<classifications, isLoading, hasLoaded, error, fetchOwner>>
             ELSE /\ StartFetch(b)
                  /\ proc' = [proc EXCEPT ![b] = [p EXCEPT !.pc = "fetch", !.newTagId = newTagId,
                                                               !.created = Append(@, newTagId)]]
                  /\ UNCHANGED approvalState
  /\ UNCHANGED <<bookmarks, pendingBookmarks, alertShown, galleryBookmarks, pureVars>>

\* findOrCreateTag: createDocument returned; then fetchClassifications(true),
\* which returns at once when a load is in flight
createDone(b) ==
  /\ proc[b].pc = "create"
  /\ Len(tags) < MaxTags
  /\ LET p == proc[b]
         newTagId == Len(tags) + 1
     IN /\ tags' = Append(tags, NewTagDoc(newTagId, CallName(p), CallLevel(p), CallParentIds(p)))
        /\ IF ~ShouldFetch(TRUE)
             THEN LET q == RunToAwait(Resolved([p EXCEPT !.created = Append(@, newTagId)], newTagId),
                                      classifications)
                  IN /\ Continue(b, q)
                     /\ approvalState' = ContinueState(approvalState, b, q)
                     /\ UNCHANGED <<classifications, isLoading, hasLoaded, error, fetchOwner>>
             ELSE /\ StartFetch(b)
                  /\ proc' = [proc EXCEPT ![b] = [p EXCEPT !.pc = "fetch", !.newTagId = newTagId,
                                                               !.created = Append(@, newTagId)]]
                  /\ UNCHANGED approvalState
  /\ UNCHANGED <<bookmarks, pendingBookmarks, alertShown, galleryBookmarks, pureVars>>

\* a slip: the catch block clears the approval state without a message
createFail_NoMessage(b) ==
  /\ proc[b].pc = "create"
  /\ proc' = [proc EXCEPT ![b] = IdleProc]
  /\ approvalState' = setApprovalStatus(approvalState, b, FALSE, "")
  /\ UNCHANGED <<tags, bookmarks, classifications, isLoading, hasLoaded, error, fetchOwner,
                 pendingBookmarks, alertShown, galleryBookmarks, pureVars>>

\* findOrCreateTag: createDocument failed; handleApproveBookmark's catch
createFail(b) ==
  /\ proc[b].pc = "create"
  /\ proc' = [proc EXCEPT ![b] = IdleProc]
  /\ approvalState' = setApprovalStatus(approvalState, b, FALSE, "Failed to create tag")
  /\ UNCHANGED <<tags, bookmarks, classifications, isLoading, hasLoaded, error, fetchOwner,
                 pendingBookmarks, alertShown, galleryBookmarks, pureVars>>

\* findOrCreateTag: its forced refresh ended (ok or not); it returns newTagDoc.$id
\* and the handler goes on
fetchReturn(b) ==
  /\ proc[b].pc = "fetch"
  /\ fetchOwner = b
  /\ \E ok \in BOOLEAN :
       /\ EndFetch(ok)
       /\ LET q == RunToAwait(Resolved(proc[b], proc[b].newTagId), classifications')
          IN /\ Continue(b, q)
             /\ approvalState' = ContinueState(WatchedApprovalState(approvalState), b, q)
             /\ WatchedPending
  /\ UNCHANGED <<tags, bookmarks, alertShown, galleryBookmarks, pureVars>>

\* handleApproveBookmark: updateDocument returned; the approval state is cleared
\* and the pending list refreshed
updateDone(b) ==
  /\ proc[b].pc = "update"
  /\ bookmarks' = [bookmarks EXCEPT ![b] = UpdateData(proc[b])]
  /\ proc' = [proc EXCEPT ![b] = IdleProc]
  /\ RefreshBookmarks(bookmarks')
  /\ UNCHANGED <<tags, classifications, isLoading, hasLoaded, error, fetchOwner,
                 alertShown, galleryBookmarks, pureVars>>

\* a slip: the catch block leaves the bookmark 'approving'
updateFail_StaysApproving(b) ==
  /\ proc[b].pc = "update"
  /\ proc' = [proc EXCEPT ![b] = IdleProc]
  /\ approvalState' = setApprovalStatus(approvalState, b, TRUE, "Failed to update bookmark")
  /\ UNCHANGED <<tags, bookmarks, classifications, isLoading, hasLoaded, error, fetchOwner,
                 pendingBookmarks, alertShown, galleryBookmarks, pureVars>>

\* handleApproveBookmark: updateDocument failed; the catch block
updateFail(b) ==
  /\ proc[b].pc = "update"
  /\ proc' = [proc EXCEPT ![b] = IdleProc]
  /\ approvalState' = setApprovalStatus(approvalState, b, FALSE, "Failed to update bookmark")
  /\ UNCHANGED <<tags, bookmarks, classifications, isLoading, hasLoaded, error, fetchOwner,
                 pendingBookmarks, alertShown, galleryBookmarks, pureVars>>

\* handleRejectBookmark: updateDocument returned
rejectDone(b) ==
  /\ proc[b].pc = "reject"
  /\ bookmarks' = [bookmarks EXCEPT ![b].status = "rejected"]
  /\ proc' = [proc EXCEPT ![b] = IdleProc]
  /\ RefreshBookmarks(bookmarks')
  /\ UNCHANGED <<tags, classifications, isLoading, hasLoaded, error, fetchOwner,
                 alertShown, galleryBookmarks, pureVars>>

\* handleRejectBookmark: updateDocument failed
rejectFail(b) ==
  /\ proc[b].pc = "reject"
  /\ proc' = [proc EXCEPT ![b] = IdleProc]
  /\ approvalState' = setApprovalStatus(approvalState, b, FALSE, "Failed to reject bookmark")
  /\ UNCHANGED <<tags, bookmarks, classifications, isLoading, hasLoaded, error, fetchOwner,
                 pendingBookmarks, alertShown, galleryBookmarks, pureVars>>

\* a caller asks the store to load, fetchClassifications() or loadClassifications():
\* onMounted, a rendered card's computed status, the gallery's onBeforeMount, or
\* the Retry button after an error
storeFetch ==
  /\ IF ShouldFetch(FALSE)
       THEN StartFetch(PageOwner)
       ELSE UNCHANGED <<classifications, isLoading, hasLoaded, error, fetchOwner>>
  /\ UNCHANGED <<tags, bookmarks, pendingBookmarks, approvalState, proc, alertShown,
                 galleryBookmarks, pureVars>>

\* the page's load of the store ended
storeFetchReturn ==
  /\ isLoading
  /\ fetchOwner = PageOwner
  /\ \E ok \in BOOLEAN :
       /\ EndFetch(ok)
       /\ approvalState' = WatchedApprovalState(approvalState)
       /\ WatchedPending
  /\ UNCHANGED <<tags, bookmarks, proc, alertShown, galleryBookmarks, pureVars>>

(***************************************************************************)
(* The verify page over a loaded backend.                                  *)
(***************************************************************************)
\* taxonomies the backend may hold when the page opens
TaxEmpty == <<>>

TaxShared == <<Tag(1, "a", 1, <<>>), Tag(2, "b", 1, <<>>), Tag(3, "a", 2, <<1, 2>>),
               Tag(4, "a", 3, <<3>>)>>

TaxSplit == <<Tag(1, "a", 1, <<>>), Tag(2, "b", 1, <<>>), Tag(3, "a", 2, <<1>>),
              Tag(4, "b", 2, <<2>>), Tag(5, "a", 3, <<3>>)>>

InitTaxonomies == {TaxEmpty, TaxShared, TaxSplit}

\* the suggestions the external classifier may have attached to a bookmark: none,
\* names without a level-1 name, or a level-1 name and any names below it
LlmSuggestions ==
  {NoLlm, Llm(NoName, NoName, <<"a">>)}
    \cup {Llm(l1, l2, l3) : l1 \in Names, l2 \in Names \cup {NoName},
                            l3 \in SeqsUpTo(Names, MaxL3)}

\* the number of names a suggestion holds
SuggestionSize(llm) ==
  (IF llm.level1TagName # NoName THEN 1 ELSE 0) + (IF llm.level2TagName # NoName THEN 1 ELSE 0)
    + Len(llm.level3TagNames)

RECURSIVE SuggestedUpTo(_, _)
SuggestedUpTo(bms, n) ==
  IF n = 0 THEN 0 ELSE SuggestionSize(bms[n].llmClassification) + SuggestedUpTo(bms, n - 1)

PureIdle ==
  /\ authNav = <<>>
  /\ filterIn = <<>>
  /\ filterOut = <<>>
  /\ descIn = <<>>
  /\ descOut = FALSE

Init ==
  /\ tags \in InitTaxonomies
  /\ bookmarks \in [BookmarkIds -> {Bookmark("pending", llm, NoId, <<>>, <<>>) : llm \in LlmSuggestions}]
  /\ SuggestedUpTo(bookmarks, NumBookmarks) <= MaxSuggested
  /\ classifications = <<>>
  /\ isLoading = FALSE
  /\ hasLoaded = FALSE
  /\ error = FALSE
  /\ fetchOwner = NoId
  /\ pendingBookmarks = ListPending(bookmarks)
  /\ approvalState = ResetApprovalState
  /\ proc = [b \in BookmarkIds |-> IdleProc]
  /\ alertShown = FALSE
  /\ galleryBookmarks = <<>>
  /\ PureIdle

Next ==
  \/ storeFetch
  \/ storeFetchReturn
  \/ \E b \in BookmarkIds : approve(b)
  \/ \E b \in BookmarkIds : reject(b)
  \/ \E b \in BookmarkIds : createDone(b)
  \/ \E b \in BookmarkIds : createFail(b)
  \/ \E b \in BookmarkIds : fetchReturn(b)
  \/ \E b \in BookmarkIds : updateDone(b)
  \/ \E b \in BookmarkIds : updateFail(b)
  \/ \E b \in BookmarkIds : rejectDone(b)
  \/ \E b \in BookmarkIds : rejectFail(b)

Spec == Init /\ [][Next]_vars

(***************************************************************************)
(* Claims about the approval workflow.                                     *)
(***************************************************************************)
IsTag(tgs, id, name, level) ==
  id \in DOMAIN tgs /\ tgs[id].name = name /\ tgs[id].level = level

\* C1: approve() on a card whose computed status has isValidOverallHierarchy =
\* false creates no tag, updates no bookmark and does not invoke the approval
\* handler: tags, bookmarks, the approval state and the handler positions stay.
C1_ApprovalGatedOnValidity ==
  [][\A b \in BookmarkIds :
       (approve(b) /\ ~StatusOf(b).isValidOverallHierarchy)
         => /\ tags' = tags
            /\ bookmarks' = bookmarks
            /\ bookmarks'[b].status = "pending"
            /\ approvalState' = approvalState
            /\ proc' = proc]_vars

\* C1 witness: the alert was shown and, with the store loaded, a pending card's
\* suggestion conflicts with the taxonomy
C1_Witness ==
  /\ alertShown
  /\ hasLoaded /\ ~isLoading
  /\ \E b \in BookmarkIds :
       /\ HasCard(b)
       /\ StatusOf(b).hasSuggestion
       /\ ~StatusOf(b).isValidOverallHierarchy
       /\ bookmarks[b].status = "pending"

\* C2 (as claimed): when a step of an approval fails, no tag the approval
\* created remains in the taxonomy and the bookmark stays pending
C2_FailedApprovalLeavesNoTag ==
  [][\A b \in BookmarkIds :
       (createFail(b) \/ updateFail(b))
         => /\ \A i \in DOMAIN proc[b].created : proc[b].created[i] \notin DOMAIN tags'
            /\ bookmarks'[b].status = "pending"]_vars

\* the 3-level hierarchy invariant of a taxonomy
HierarchyOK(tgs) ==
  \A i \in DOMAIN tgs :
    /\ tgs[i].level = 1 => tgs[i].parentIds = <<>>
    /\ tgs[i].level \in {2, 3} =>
         \A j \in DOMAIN tgs[i].parentIds :
           /\ tgs[i].parentIds[j] \in DOMAIN tgs
           /\ tgs[tgs[i].parentIds[j]].level = tgs[i].level - 1

\* a created tag: level 1..3, no parent at level 1, one parent of the level above else
CreatedOK(tgs, i) ==
  /\ tgs[i].level \in {1, 2, 3}
  /\ tgs[i].level = 1 => tgs[i].parentIds = <<>>
  /\ tgs[i].level > 1 =>
       /\ Len(tgs[i].parentIds) = 1
       /\ tgs[i].parentIds[1] \in DOMAIN tgs
       /\ tgs[tgs[i].parentIds[1]].level = tgs[i].level - 1

\* C3: every step keeps the hierarchy invariant, and every tag a step adds has a
\* level in 1..3, no parent at level 1 and exactly one parent of the level above
\* at levels 2 and 3.
C3_HierarchyPreserved ==
  [][HierarchyOK(tags) =>
       /\ HierarchyOK(tags')
       /\ \A i \in DOMAIN tags' : i \notin DOMAIN tags => CreatedOK(tags', i)]_vars

\* C3 witness: an approval has created a level-3 tag under a level-2 tag it created
C3_Witness ==
  \E b \in BookmarkIds : \E i, j \in DOMAIN proc[b].created :
    /\ tags[proc[b].created[i]].level = 2
    /\ tags[proc[b].created[j]].level = 3
    /\ tags[proc[b].created[j]].parentIds = <<proc[b].created[i]>>

\* the document a successful approval of suggestion llm must leave
ApprovedAs(tgs, doc, llm) ==
  /\ doc.status = "verified"
  /\ doc.llmClassification = NoLlm
  /\ IsTag(tgs, doc.level1Id, llm.level1TagName, 1)
  /\ IF llm.level2TagName = NoName
       THEN doc.level2Ids = <<>> /\ doc.level3Ids = <<>>
       ELSE /\ Len(doc.level2Ids) = 1
            /\ IsTag(tgs, doc.level2Ids[1], llm.level2TagName, 2)
            /\ Includes(tgs[doc.level2Ids[1]].parentIds, doc.level1Id)
            /\ Len(doc.level3Ids) = Len(llm.level3TagNames)
            /\ \A i \in DOMAIN doc.level3Ids :
                 /\ IsTag(tgs, doc.level3Ids[i], llm.level3TagNames[i], 3)
                 /\ Includes(tgs[doc.level3Ids[i]].parentIds, doc.level2Ids[1])

\* C4: the update of a successful approval leaves the document verified, its
\* suggestion cleared, level1Id a level-1 tag of the suggested name, level2Ids the
\* one level-2 tag of the suggested name under it (or empty), and level3Ids one
\* level-3 tag per suggested name, in order, each under that level-2 tag.
C4_ApprovedDocument ==
  [][\A b \in BookmarkIds :
       updateDone(b) => ApprovedAs(tags', bookmarks'[b], bookmarks[b].llmClassification)]_vars

\* C4 witness: a verified bookmark with two different level-3 tags
C4_Witness ==
  \E b \in BookmarkIds :
    /\ bookmarks[b].status = "verified"
    /\ Len(bookmarks[b].level2Ids) = 1
    /\ Len(bookmarks[b].level3Ids) = 2
    /\ bookmarks[b].level3Ids[1] # bookmarks[b].level3Ids[2]

\* what an invocation at call k has resolved: the calls before k, in order, each
\* child under the id obtained for the level above, and nothing beyond
ResolvedInOrder(p, tgs) ==
  /\ p.k >= 1
  /\ IF p.k >= 2 THEN IsTag(tgs, p.finalL1Id, p.status.level1.name, 1) ELSE p.finalL1Id = NoId
  /\ IF p.k >= 3 /\ p.status.level2 # NullStatus
       THEN /\ IsTag(tgs, p.finalL2Id, p.status.level2.name, 2)
            /\ Includes(tgs[p.finalL2Id].parentIds, p.finalL1Id)
       ELSE p.finalL2Id = NoId
  /\ Len(p.finalL3Ids) = (IF p.k >= 3 /\ p.status.level2 # NullStatus THEN p.k - 3 ELSE 0)
  /\ \A i \in DOMAIN p.finalL3Ids :
       /\ IsTag(tgs, p.finalL3Ids[i], p.status.level3[i].name, 3)
       /\ Includes(tgs[p.finalL3Ids[i]].parentIds, p.finalL2Id)

\* C5: an approval resolves L1, then L2, then each L3 in list order, each child
\* under the id obtained for the level above; it awaits the bookmark update only
\* with every level resolved, and only that update verifies the bookmark; when a
\* resolution fails no update is issued, the bookmark stays pending and an error
\* is recorded for it.
C5_ResolutionOrder ==
  [][\A b \in BookmarkIds :
       /\ proc'[b].pc \in {"create", "fetch", "update"} => ResolvedInOrder(proc'[b], tags')
       /\ proc'[b].pc = "create" => proc'[b].k <= NumCalls(proc'[b].status)
       /\ proc'[b].pc = "update" => proc'[b].k = NumCalls(proc'[b].status) + 1
       /\ (proc[b].pc \in {"create", "fetch"} /\ proc'[b].pc \in {"create", "fetch", "update"})
            => proc'[b].k >= proc[b].k /\ proc'[b].status = proc[b].status
       /\ (bookmarks'[b] # bookmarks[b] /\ bookmarks'[b].status = "verified")
            => proc[b].pc = "update"
       /\ createFail(b)
            => /\ bookmarks' = bookmarks
               /\ bookmarks'[b].status = "pending"
               /\ proc'[b].pc = "idle"
               /\ ~approvalState'[b].approving
               /\ approvalState'[b].error # ""]_vars

\* C5 witness: an approval failed at its second level-3 tag after creating the
\* tags before it
C5_Witness ==
  \E b \in BookmarkIds :
    /\ proc[b].pc = "idle"
    /\ approvalState[b].error = "Failed to create tag"
    /\ bookmarks[b].status = "pending"
    /\ bookmarks[b].llmClassification.level2TagName # NoName
    /\ Len(bookmarks[b].llmClassification.level3TagNames) = 2
    /\ \E i, j \in DOMAIN tags :
         /\ IsTag(tags, j, bookmarks[b].llmClassification.level2TagName, 2)
         /\ IsTag(tags, i, bookmarks[b].llmClassification.level3TagNames[1], 3)
         /\ tags[i].parentIds = <<j>>
         /\ ~\E m \in DOMAIN tags :
               /\ IsTag(tags, m, bookmarks[b].llmClassification.level3TagNames[2], 3)
               /\ Includes(tags[m].parentIds, j)

\* C10: with the store loaded, a suggested L2 that exists but does not list the
\* existing suggested L1 among its parents gives level2.hierarchyValid = false and
\* isValidOverallHierarchy = false; a suggested L3 that exists but does not list
\* the existing, validly parented L2 gives isValidOverallHierarchy = false.
C10_MismatchDetected ==
  \A b \in BookmarkIds :
    (HasCard(b) /\ hasLoaded /\ ~isLoading /\ CardOf(b).parsedLlmClassification.level1TagName # NoName) =>
      LET llm == CardOf(b).parsedLlmClassification
          st == StatusOf(b)
          l1 == findClassificationByNameAndLevel(classifications, llm.level1TagName, 1)
          l2 == findClassificationByNameAndLevel(classifications, llm.level2TagName, 2)
          bothExist == llm.level2TagName # NoName /\ l1 # NoTag /\ l2 # NoTag
      IN /\ (bothExist /\ ~Includes(l2.parentIds, l1.id))
              => ~st.level2.hierarchyValid /\ ~st.isValidOverallHierarchy
         /\ \A i \in DOMAIN llm.level3TagNames :
              LET l3 == findClassificationByNameAndLevel(classifications, llm.level3TagNames[i], 3)
              IN (bothExist /\ Includes(l2.parentIds, l1.id) /\ l3 # NoTag
                    /\ ~Includes(l3.parentIds, l2.id))
                   => ~st.isValidOverallHierarchy

\* C10 witness: a loaded store and a card whose suggested L1 and L2 exist, the L2
\* under the L1, and whose suggested L3 exists under another L2
C10_Witness ==
  \E b \in BookmarkIds :
    /\ HasCard(b) /\ hasLoaded /\ ~isLoading
    /\ LET llm == CardOf(b).parsedLlmClassification
           l1 == findClassificationByNameAndLevel(classifications, llm.level1TagName, 1)
           l2 == findClassificationByNameAndLevel(classifications, llm.level2TagName, 2)
       IN /\ l1 # NoTag /\ l2 # NoTag /\ Includes(l2.parentIds, l1.id)
          /\ \E i \in DOMAIN llm.level3TagNames :
               LET l3 == findClassificationByNameAndLevel(classifications, llm.level3TagNames[i], 3)
               IN l3 # NoTag /\ ~Includes(l3.parentIds, l2.id)

ReturnedCreated(b) ==
  {proc[b].created[i] : i \in DOMAIN proc[b].created}
    \ (IF proc[b].pc = "fetch" THEN {proc[b].newTagId} ELSE {})

\* C12 (as claimed): once findOrCreateTag has created a tag and returned its id,
\* the store holds that tag
C12_CreatedTagInStore ==
  \A b \in BookmarkIds : \A id \in ReturnedCreated(b) :
    getClassification(classifications, id) # NoTag

\* the store holds a tag with that name and level and, below level 1, that parent
StoreHolds(cls, name, level, parentIds) ==
  \E i \in DOMAIN cls :
    /\ cls[i].name = name
    /\ cls[i].level = level
    /\ level > 1 => (parentIds # <<>> /\ Includes(cls[i].parentIds, parentIds[1]))

\* the handler of b has just decided, against the store of that moment, to create
DecidesToCreate(b) ==
  /\ proc'[b].pc = "create"
  /\ proc'[b] # proc[b]

\* C13 (as claimed): findOrCreateTag goes on to createDocument only when the store
\* holds no tag with the name and level asked for (below level 1: with the required
\* parent among its parentIds)
C13_CreatesOnlyMissing ==
  [][\A b \in BookmarkIds :
       DecidesToCreate(b)
         => ~StoreHolds(classifications', CallName(proc'[b]), CallLevel(proc'[b]),
                        CallParentIds(proc'[b]))]_vars

\* C15: while the store is loading or not loaded every card's status has
\* isValidOverallHierarchy = false; an approval handler leaves idle for a tag
\* creation or the update to 'verified' only from a loaded store with no load in
\* flight, and approve() on a card before that changes no tag, bookmark or handler
C15_NoApprovalBeforeLoaded ==
  [][\A b \in BookmarkIds :
       /\ (HasCard(b) /\ (isLoading \/ ~hasLoaded)) => ~StatusOf(b).isValidOverallHierarchy
       /\ (proc[b].pc = "idle" /\ proc'[b].pc \in {"create", "update"})
            => (hasLoaded /\ ~isLoading)
       /\ (approve(b) /\ (isLoading \/ ~hasLoaded))
            => UNCHANGED <<tags, bookmarks, proc, approvalState>>]_vars

\* C15 witness: approve() was blocked before the store's first load ended, on a
\* page whose every suggestion is valid against the (empty) taxonomy
C15_Witness ==
  /\ alertShown /\ ~hasLoaded /\ isLoading
  /\ tags = <<>>
  /\ \A b \in BookmarkIds :
       /\ HasCard(b)
       /\ proc[b].pc = "idle"
       /\ llmClassificationStatus(<<>>, TRUE, FALSE, CardOf(b).parsedLlmClassification)
            .isValidOverallHierarchy
       /\ CardOf(b).parsedLlmClassification.level1TagName # NoName

\* the suggestion names level-3 tags but no level-2 tag, or a level-2 tag the store
\* holds outside the level-1 tag it holds
L3WithoutUsableL2(cls, llm) ==
  LET existingL1 == findClassificationByNameAndLevel(cls, llm.level1TagName, 1)
      existingL2 == findClassificationByNameAndLevel(cls, llm.level2TagName, 2)
  IN /\ llm.level3TagNames # <<>>
     /\ \/ llm.level2TagName = NoName
        \/ /\ existingL1 # NoTag
           /\ existingL2 # NoTag
           /\ ~Includes(existingL2.parentIds, existingL1.id)

ChildOfNewParentIsNew(b) ==
  LET llm == CardOf(b).parsedLlmClassification
      status == StatusOf(b)
  IN /\ (/\ status.level1.status = "new"
         /\ findClassificationByNameAndLevel(classifications, llm.level2TagName, 2) # NoTag)
          => (status.level2.status = "new" /\ status.level2.existingId = NoId)
     /\ status.level2.status = "new"
          => \A i \in DOMAIN status.level3 :
               findClassificationByNameAndLevel(classifications, status.level3[i].name, 3) # NoTag
                 => (status.level3[i].status = "new" /\ status.level3[i].existingId = NoId)

\* C17: no step changes or removes a tag the backend holds; a creation appends one
\* tag, of the name and level asked for, under the parent the handler resolved;
\* and a loaded card reports the child of a new parent as 'new' even when a tag of
\* its name and level exists
C17_ExistingTagsKept ==
  [][/\ Len(tags') >= Len(tags)
     /\ \A i \in DOMAIN tags : tags'[i] = tags[i]
     /\ \A b \in BookmarkIds :
          /\ (createDone(b) /\ tags' # tags)
               => tags' = Append(tags, Tag(Len(tags) + 1, CallName(proc[b]), CallLevel(proc[b]),
                                           CallParentIds(proc[b])))
          /\ (HasCard(b) /\ hasLoaded /\ ~isLoading /\ StatusOf(b).hasSuggestion)
               => ChildOfNewParentIsNew(b)]_vars

\* C17 witness: a bookmark was verified under a level-2 tag created below its new
\* level-1 tag, while an older level-2 tag of the same name stays where it was
C17_Witness ==
  \E b \in BookmarkIds : \E k \in DOMAIN tags :
    /\ bookmarks[b].status = "verified"
    /\ bookmarks[b].level2Ids # <<>>
    /\ LET l1 == bookmarks[b].level1Id
           l2 == bookmarks[b].level2Ids[1]
       IN /\ k < l1 /\ l1 < l2
          /\ tags[k].level = 2
          /\ tags[k].name = tags[l2].name
          /\ ~Includes(tags[k].parentIds, l1)
          /\ tags[l2].parentIds = <<l1>>

\* the suggestion attached to the pending bookmark b has no level-1 name
NoLevel1Suggested(b) ==
  /\ bookmarks[b].status = "pending"
  /\ bookmarks[b].llmClassification.level1TagName = NoName

BackendAnswers ==
  /\ WF_vars(storeFetchReturn)
  /\ \A b \in BookmarkIds :
       /\ WF_vars(createDone(b) \/ createFail(b))
       /\ WF_vars(fetchReturn(b))
       /\ WF_vars(updateDone(b) \/ updateFail(b))
       /\ WF_vars(rejectDone(b) \/ rejectFail(b))

MaxAnswered == 3   \* suggested names over all bookmarks when every call is answered

\* the verify page of Init, with fewer suggested names
InitAnswered ==
  /\ Init
  /\ SuggestedUpTo(bookmarks, NumBookmarks) <= MaxAnswered

SpecAnswered == InitAnswered /\ [][Next]_vars /\ BackendAnswers

\* the handler of b returns in this step
HandlerReturns(b) == proc[b].pc # "idle" /\ proc'[b].pc = "idle"

\* C19: a handler that is running returns, a bookmark that is 'approving' stops
\* being so, and when a handler returns the bookmark is not 'approving' and holds an
\* error message exactly if the handler's update of the bookmark did not happen
C19_HandlerEndsWithVerdict ==
  /\ \A b \in BookmarkIds : (proc[b].pc # "idle") ~> (proc[b].pc = "idle")
  /\ \A b \in BookmarkIds : approvalState[b].approving ~> ~approvalState[b].approving
  /\ [][\A b \in BookmarkIds :
          HandlerReturns(b)
            => /\ ~approvalState'[b].approving
               /\ approvalState'[b].error # "" <=> bookmarks'[b] = bookmarks[b]]_vars

\* C19 witness: an approval has failed at its second tag creation: the bookmark is
\* still pending, not 'approving', and holds the error message
C19_Witness ==
  \E b \in BookmarkIds :
    /\ proc[b].pc = "idle"
    /\ bookmarks[b].status = "pending"
    /\ approvalState[b] = [approving |-> FALSE, error |-> "Failed to create tag"]
    /\ \E i \in DOMAIN tags :
         /\ tags[i].name = bookmarks[b].llmClassification.level1TagName
         /\ tags[i].level = 1
         /\ i = Len(tags)
         /\ Len(tags) = 1

\* two tags share name, level and parent (at level 1: name and level)
SameTag(t, u) ==
  /\ t.name = u.name
  /\ t.level = u.level
  /\ t.level > 1 => Range(t.parentIds) \cap Range(u.parentIds) # {}

\* C21 (as claimed): the backend never holds two distinct tags that share name,
\* level and parent, whatever the interleaving of approvals and the order of the
\* level-3 names
C21_NoDuplicateTags ==
  \A i, j \in DOMAIN tags : SameTag(tags[i], tags[j]) => i = j

(***************************************************************************)
(* Submission (admin/create) and the public gallery (index).               *)
(***************************************************************************)
\* create.vue handleSubmit: createDocument with status 'pending' (no
\* llmClassification is written by the form)
handleSubmit(b) ==
  /\ bookmarks[b].status = "none"
  /\ bookmarks' = [bookmarks EXCEPT ![b] = SubmittedBookmark]
  /\ UNCHANGED <<tags, classifications, isLoading, hasLoaded, error, fetchOwner,
                 pendingBookmarks, approvalState, proc, alertShown, galleryBookmarks, pureVars>>

\* index.vue: what the gallery keeps of a document
GalleryItem(b, doc) ==
  [id |-> b, level1Id |-> doc.level1Id, level2Id |-> NoId, level3Id |-> doc.level3Ids]

\* a slip: the list request carries no status query
RECURSIVE ListGallery_NoQuery(_, _)
ListGallery_NoQuery(bms, n) ==
  IF n = 0 THEN <<>>
  ELSE IF bms[n].status # "none"
         THEN Append(ListGallery_NoQuery(bms, n - 1), GalleryItem(n, bms[n]))
         ELSE ListGallery_NoQuery(bms, n - 1)

\* index.vue 'bookmarks-list': listDocuments with Query.equal('status', 'verified')
RECURSIVE ListGallery(_, _)
ListGallery(bms, n) ==
  IF n = 0 THEN <<>>
  ELSE IF bms[n].status = "verified"
         THEN Append(ListGallery(bms, n - 1), GalleryItem(n, bms[n]))
         ELSE ListGallery(bms, n - 1)

\* the gallery page fetches its list; on an error it shows none
galleryFetch ==
  /\ \E ok \in BOOLEAN :
       galleryBookmarks' = IF ok THEN ListGallery(bookmarks, NumBookmarks) ELSE <<>>
  /\ UNCHANGED <<wfVars, pureVars>>

\* suggestions of the documents the backend holds when the gallery model starts
GallerySuggestions == {Llm("a", NoName, <<>>)}

InitGallery ==
  /\ tags = TaxEmpty
  /\ bookmarks \in [BookmarkIds ->
       {Bookmark("none", NoLlm, NoId, <<>>, <<>>)}
         \cup {Bookmark("pending", llm, NoId, <<>>, <<>>) : llm \in GallerySuggestions}]
  /\ classifications = <<>>
  /\ isLoading = FALSE
  /\ hasLoaded = FALSE
  /\ error = FALSE
  /\ fetchOwner = NoId
  /\ pendingBookmarks = ListPending(bookmarks)
  /\ approvalState = ResetApprovalState
  /\ proc = [b \in BookmarkIds |-> IdleProc]
  /\ alertShown = FALSE
  /\ galleryBookmarks = <<>>
  /\ PureIdle

NextGallery ==
  \/ Next
  \/ galleryFetch
  \/ \E b \in BookmarkIds : handleSubmit(b)

SpecGallery == InitGallery /\ [][NextGallery]_vars

InGallery(g, b) == \E i \in DOMAIN g : g[i].id = b

MaxNavigations == 3   \* navigations of one visit

Routes == {"/", "/login", "/admin", "/admin/create", "/admin/verify"}

AdminRoutes == {"/admin", "/admin/create", "/admin/verify"}

\* definePageMeta of each page: the admin pages name the middleware 'auth'; no
\* page sets requiresAuth or authPage
RouteMeta(r) ==
  [middleware |-> r \in AdminRoutes, requiresAuth |-> FALSE, authPage |-> FALSE]

\* useAuth(): every call makes fresh refs, currentUser null and isLoading true
UseAuth(nav) == [nav EXCEPT !.currentUser = FALSE, !.isLoading = TRUE]

\* the middleware after its fetch: where the navigation to `to` lands
AuthDecision(meta, currentUser, to) ==
  IF meta.requiresAuth /\ ~currentUser THEN "/login"
  ELSE IF currentUser /\ meta.authPage THEN "/admin"
  ELSE to

\* a navigation to `to` starts; a page with the middleware runs it up to its
\* await of fetchCurrentUser()
navigateTo(to) ==
  /\ authNav.pc = "idle"
  /\ authNav.navigations < MaxNavigations
  /\ authNav' =
       IF RouteMeta(to).middleware
         THEN [UseAuth(authNav) EXCEPT !.pc = "fetch", !.to = to, !.navigations = @ + 1]
         ELSE [authNav EXCEPT !.route = to, !.to = to, !.navigations = @ + 1]
  /\ UNCHANGED <<wfVars, galleryBookmarks, filterIn, filterOut, descIn, descOut>>

\* fetchCurrentUser(): account.get() returned the user of the session or threw;
\* then the middleware decides
fetchCurrentUser ==
  /\ authNav.pc = "fetch"
  /\ \E ok \in BOOLEAN :
       LET user == authNav.session /\ ok
       IN authNav' = [authNav EXCEPT
                        !.currentUser = user,
                        !.isLoading = FALSE,
                        !.pc = "idle",
                        !.route = AuthDecision(RouteMeta(authNav.to), user, authNav.to)]
  /\ UNCHANGED <<wfVars, galleryBookmarks, filterIn, filterOut, descIn, descOut>>

\* login page handleLogin: login() makes the session, then navigateTo('/admin');
\* a failed login stays on the page
handleLogin ==
  /\ authNav.pc = "idle"
  /\ authNav.route = "/login"
  /\ ~authNav.session
  /\ \E ok \in BOOLEAN :
       authNav' = IF ok
                    THEN [UseAuth(authNav) EXCEPT !.session = TRUE, !.pc = "fetch", !.to = "/admin"]
                    ELSE authNav
  /\ UNCHANGED <<wfVars, galleryBookmarks, filterIn, filterOut, descIn, descOut>>

\* layout handleLogout: logout() deletes the session
handleLogout ==
  /\ authNav.pc = "idle"
  /\ authNav.session
  /\ authNav' = [authNav EXCEPT !.session = FALSE]
  /\ UNCHANGED <<wfVars, galleryBookmarks, filterIn, filterOut, descIn, descOut>>

\* the verify page with nothing on it
WorkflowIdle ==
  /\ tags = TaxEmpty
  /\ bookmarks = [b \in BookmarkIds |-> Bookmark("none", NoLlm, NoId, <<>>, <<>>)]
  /\ classifications = <<>>
  /\ isLoading = FALSE
  /\ hasLoaded = FALSE
  /\ error = FALSE
  /\ fetchOwner = NoId
  /\ pendingBookmarks = <<>>
  /\ approvalState = ResetApprovalState
  /\ proc = [b \in BookmarkIds |-> IdleProc]
  /\ alertShown = FALSE
  /\ galleryBookmarks = <<>>

InitAuth ==
  /\ WorkflowIdle
  /\ \E session \in BOOLEAN, route \in {"/", "/login"} :
       authNav = [session |-> session, route |-> route, to |-> route, pc |-> "idle",
                  currentUser |-> FALSE, isLoading |-> TRUE, navigations |-> 0]
  /\ filterIn = <<>>
  /\ filterOut = <<>>
  /\ descIn = <<>>
  /\ descOut = FALSE

NextAuth ==
  \/ \E to \in Routes : navigateTo(to)
  \/ fetchCurrentUser
  \/ handleLogin
  \/ handleLogout

SpecAuth == InitAuth /\ [][NextAuth]_vars

\* C7 (as claimed): a navigation to /admin, /admin/create or /admin/verify that
\* the middleware decided with no current user has landed on /login
C7_AnonymousRedirected ==
  (authNav.pc = "idle" /\ authNav.navigations > 0 /\ authNav.to \in AdminRoutes
     /\ ~authNav.currentUser)
    => authNav.route = "/login"

(***************************************************************************)
(* Gallery page: filteredBookmarks, and the sidebar's filter state.        *)
(* Texts are sequences of characters; ids are texts; null and '' are <<>>. *)
(***************************************************************************)
MaxFetched == 2   \* bookmarks the gallery fetched
MaxText == 2      \* characters of a search text

Alphabet == {"a", "A", "t"}

NoText == <<>>

\* String.prototype.toLowerCase
LowerOf(c) == IF c = "A" THEN "a" ELSE c

toLowerCase(s) == [i \in DOMAIN s |-> LowerOf(s[i])]

\* String.prototype.includes
StrIncludes(s, sub) ==
  \E off \in 0..(Len(s) - Len(sub)) : \A i \in 1..Len(sub) : s[off + i] = sub[i]

\* classificationNameMap.get(id) || id
getClassificationName(nameMap, id) ==
  IF id \in DOMAIN nameMap /\ nameMap[id] # NoText THEN nameMap[id] ELSE id

\* ids.filter(id => id).map(id => getClassificationName(id))
getClassificationNames(nameMap, ids) ==
  LET validIds == SelectSeq(ids, LAMBDA id : id # NoText)
  IN [i \in DOMAIN validIds |-> getClassificationName(nameMap, validIds[i])]

\* the ids handed to getClassificationNames for one bookmark
TagIdsOf(bookmark) ==
  (IF bookmark.level1Id # NoText THEN <<bookmark.level1Id>> ELSE <<>>)
    \o (IF bookmark.level2Id # NoText THEN <<bookmark.level2Id>> ELSE <<>>)
    \o bookmark.level3Id

\* the search filter's callback
MatchesSearch(nameMap, bookmark, lowerSearch) ==
  LET tagNames == getClassificationNames(nameMap, TagIdsOf(bookmark))
  IN \/ StrIncludes(toLowerCase(bookmark.title), lowerSearch)
     \/ StrIncludes(toLowerCase(bookmark.description), lowerSearch)
     \/ \E i \in DOMAIN tagNames : StrIncludes(toLowerCase(tagNames[i]), lowerSearch)

\* const filteredBookmarks = computed(...)
filteredBookmarks(in) ==
  LET lowerSearch == toLowerCase(in.searchQuery)
      items1 == IF in.showFavoritesOnly
                  THEN SelectSeq(in.bookmarks, LAMBDA bookmark : bookmark.isFavorite)
                  ELSE in.bookmarks
      items2 == IF in.selectedL1Id # NoText
                  THEN SelectSeq(items1, LAMBDA bookmark : bookmark.level1Id = in.selectedL1Id)
                  ELSE items1
      items3 == IF in.selectedL2Id # NoText
                  THEN SelectSeq(items2, LAMBDA bookmark : bookmark.level2Id = in.selectedL2Id)
                  ELSE items2
  IN IF lowerSearch # NoText
       THEN SelectSeq(items3, LAMBDA bookmark : MatchesSearch(in.nameMap, bookmark, lowerSearch))
       ELSE items3

\* the page re-evaluates the computed list when an input changed
Refiltered ==
  /\ filterOut' = filteredBookmarks(filterIn')
  /\ UNCHANGED <<wfVars, galleryBookmarks, authNav, descIn, descOut>>

\* a slip: no watcher resets the L2 filter
selectL1_NoWatcher(categoryId) ==
  /\ filterIn' = [filterIn EXCEPT
                    !.selectedL1Id = IF @ = categoryId THEN NoText ELSE categoryId]
  /\ Refiltered

\* sidebar selectL1, with the watcher on selectedL1Id resetting the L2 filter
selectL1(categoryId) ==
  /\ filterIn' = [filterIn EXCEPT
                    !.selectedL1Id = IF @ = categoryId THEN NoText ELSE categoryId,
                    !.selectedL2Id = NoText]
  /\ Refiltered

\* sidebar selectL2: nothing happens while no L1 is selected
selectL2(subCategoryId) ==
  /\ filterIn' = IF filterIn.selectedL1Id # NoText
                    THEN [filterIn EXCEPT
                            !.selectedL2Id = IF @ = subCategoryId THEN NoText ELSE subCategoryId]
                    ELSE filterIn
  /\ Refiltered

\* sidebar clearClassificationFilters
clearClassificationFilters ==
  /\ filterIn' = [filterIn EXCEPT !.selectedL1Id = NoText, !.selectedL2Id = NoText]
  /\ Refiltered

\* the search box (v-model searchQuery)
setSearchQuery(q) ==
  /\ filterIn.searchQuery # q
  /\ filterIn' = [filterIn EXCEPT !.searchQuery = q]
  /\ Refiltered

\* the favorites tab (showFavoritesOnly)
setShowFavoritesOnly(v) ==
  /\ filterIn.showFavoritesOnly # v
  /\ filterIn' = [filterIn EXCEPT !.showFavoritesOnly = v]
  /\ Refiltered

\* ids and names of the tags the gallery model draws from
FilterL1Ids == {<<"t">>, <<"t", "t">>}

FilterL2Id == <<"a", "t">>

FilterL3Id == <<"t", "a">>

\* the store's name map: not loaded, loaded, or loaded without the level-3 tag
NameMapLoaded ==
  (<<"t">> :> <<"A">>) @@ (<<"t", "t">> :> <<"a", "a">>) @@ (FilterL2Id :> <<"A", "a">>)
    @@ (FilterL3Id :> <<"a">>)

NameMapPartial ==
  (<<"t">> :> <<"A">>) @@ (<<"t", "t">> :> <<"a", "a">>) @@ (FilterL2Id :> <<"A", "a">>)

NameMaps == {<<>>, NameMapLoaded, NameMapPartial}

\* the fetched bookmarks, as 'bookmarks-list' maps the documents
FetchedBookmark(title, description, level1Id, level2Id, level3Id, isFavorite) ==
  [title |-> title, description |-> description, level1Id |-> level1Id,
   level2Id |-> level2Id, level3Id |-> level3Id, isFavorite |-> isFavorite]

FetchedPool ==
  {FetchedBookmark(title, description, lv[1], lv[2], lv[3], fav) :
     title \in {<<"A", "t">>, <<>>},
     description \in {<<"a">>, <<>>},
     lv \in {<<NoText, NoText, <<>>>>, <<<<"t">>, NoText, <<>>>>,
             <<<<"t">>, FilterL2Id, <<>>>>, <<<<"t">>, FilterL2Id, <<FilterL3Id>>>>},
     fav \in BOOLEAN}

SearchTexts == SeqsUpTo(Alphabet, MaxText)

InitFilter ==
  /\ WorkflowIdle
  /\ authNav = <<>>
  /\ \E fetched \in SeqsUpTo(FetchedPool, MaxFetched), nameMap \in NameMaps :
       filterIn = [bookmarks |-> fetched, nameMap |-> nameMap, showFavoritesOnly |-> FALSE,
                   selectedL1Id |-> NoText, selectedL2Id |-> NoText, searchQuery |-> NoText]
  /\ filterOut = filteredBookmarks(filterIn)
  /\ descIn = <<>>
  /\ descOut = FALSE

NextFilter ==
  \/ \E categoryId \in FilterL1Ids : selectL1(categoryId)
  \/ selectL2(FilterL2Id)
  \/ clearClassificationFilters
  \/ \E q \in SearchTexts : setSearchQuery(q)
  \/ \E v \in BOOLEAN : setShowFavoritesOnly(v)

SpecFilter == InitFilter /\ [][NextFilter]_vars

\* case-insensitive containment
ContainsText(s, q) == StrIncludes(toLowerCase(s), toLowerCase(q))

\* the bookmark's tag names: the names the store holds for its tags
TagNamesOf(nameMap, bookmark) ==
  {nameMap[id] : id \in Range(TagIdsOf(bookmark)) \cap DOMAIN nameMap}

\* a bookmark satisfies every active filter
SatisfiesFilters(in, bookmark) ==
  /\ in.showFavoritesOnly => bookmark.isFavorite
  /\ in.selectedL1Id # NoText => bookmark.level1Id = in.selectedL1Id
  /\ in.selectedL2Id # NoText => bookmark.level2Id = in.selectedL2Id
  /\ in.searchQuery # NoText =>
       \/ ContainsText(bookmark.title, in.searchQuery)
       \/ ContainsText(bookmark.description, in.searchQuery)
       \/ \E name \in TagNamesOf(in.nameMap, bookmark) : ContainsText(name, in.searchQuery)

\* C8 (as claimed): filteredBookmarks is exactly the subsequence of the fetched
\* bookmarks that satisfy every active filter: favorite, level1Id, level2Id and
\* the search text contained, ignoring case, in the title, the description or
\* one of the bookmark's tag names
C8_ExactlyTheMatching ==
  filterOut = SelectSeq(filterIn.bookmarks, LAMBDA bookmark : SatisfiesFilters(filterIn, bookmark))

\* C20: after every step of the sidebar an L2 filter implies an L1 filter; a step
\* that changes the L1 filter leaves no L2 filter; selectL2 with no L1 filter
\* changes nothing; and selectL1 of the selected category clears the L1 filter
C20_FilterStateConsistent ==
  [][/\ filterIn'.selectedL2Id # NoText => filterIn'.selectedL1Id # NoText
     /\ filterIn'.selectedL1Id # filterIn.selectedL1Id => filterIn'.selectedL2Id = NoText
     /\ (selectL2(FilterL2Id) /\ filterIn.selectedL1Id = NoText) => filterIn' = filterIn
     /\ \A categoryId \in FilterL1Ids :
          (selectL1(categoryId) /\ filterIn.selectedL1Id = categoryId)
            => filterIn'.selectedL1Id = NoText]_vars

\* C20 witness: an L2 filter is set under an L1 filter, over fetched bookmarks
C20_Witness ==
  /\ filterIn.selectedL1Id \in FilterL1Ids
  /\ filterIn.selectedL2Id = FilterL2Id
  /\ filterIn.bookmarks # <<>>

(***************************************************************************)
(* Classification store: getParents and isDescendantOf.                    *)
(***************************************************************************)
NumDescTags == 2   \* tags the store holds
MaxParents == 2    \* parentIds of one tag

\* a slip: only parentIds[0] is followed
getParents_FirstOnly(cls, childId) ==
  LET child == getClassification(cls, childId)
  IN IF child = NoTag \/ child.parentIds = <<>> THEN <<>>
     ELSE SelectSeq(<<child.parentIds[1]>>, LAMBDA parentId : getClassification(cls, parentId) # NoTag)

\* getParents(childId): the ids of the parents the store holds, in parentIds order
getParents(cls, childId) ==
  LET child == getClassification(cls, childId)
  IN IF child = NoTag \/ child.parentIds = <<>> THEN <<>>
     ELSE SelectSeq(child.parentIds, LAMBDA parentId : getClassification(cls, parentId) # NoTag)

\* isDescendantOf: `for (const parent of parents)` over the rest of the parents,
\* and the inner check(currentId); both return found and the visited set
RECURSIVE CheckParents(_, _, _, _)
RECURSIVE check(_, _, _, _)
CheckParents(cls, ancestorId, parents, visited) ==
  IF parents = <<>> THEN [found |-> FALSE, visited |-> visited]
  ELSE IF Head(parents) = ancestorId THEN [found |-> TRUE, visited |-> visited]
  ELSE LET r == check(cls, ancestorId, Head(parents), visited)
       IN IF r.found THEN r ELSE CheckParents(cls, ancestorId, Tail(parents), r.visited)

check(cls, ancestorId, currentId, visited) ==
  IF currentId = ancestorId THEN [found |-> TRUE, visited |-> visited]
  ELSE IF currentId \in visited THEN [found |-> FALSE, visited |-> visited]
  ELSE CheckParents(cls, ancestorId, getParents(cls, currentId), visited \cup {currentId})

isDescendantOf(cls, childId, ancestorId) ==
  CheckParents(cls, ancestorId, getParents(cls, childId), {}).found

\* a template or filter calls isDescendantOf(childId, ancestorId), once per store
callIsDescendantOf(childId, ancestorId) ==
  /\ descIn.childId = NoId
  /\ descIn' = [descIn EXCEPT !.childId = childId, !.ancestorId = ancestorId]
  /\ descOut' = isDescendantOf(descIn.cls, childId, ancestorId)
  /\ UNCHANGED <<wfVars, galleryBookmarks, authNav, filterIn, filterOut>>

\* ids: those of the tags the store holds and one it does not hold
DescIds == 1..(NumDescTags + 1)

\* parentIds: up to MaxParents different ids, in any order
ParentLists ==
  {ps \in SeqsUpTo(DescIds, MaxParents) : \A i, j \in DOMAIN ps : i # j => ps[i] # ps[j]}

\* every store of NumDescTags tags, cycles and missing parents included
DescStores ==
  {[i \in 1..NumDescTags |-> Tag(i, "a", 1, ps[i])] : ps \in [1..NumDescTags -> ParentLists]}

InitDescendant ==
  /\ WorkflowIdle
  /\ authNav = <<>>
  /\ filterIn = <<>>
  /\ filterOut = <<>>
  /\ \E cls \in DescStores : descIn = [cls |-> cls, childId |-> NoId, ancestorId |-> NoId]
  /\ descOut = FALSE

NextDescendant ==
  \E childId, ancestorId \in DescIds : callIsDescendantOf(childId, ancestorId)

SpecDescendant == InitDescendant /\ [][NextDescendant]_vars

\* the parent links between tags the store holds
ParentLinks(cls) ==
  {l \in {<<cls[i].id, cls[j].id>> : i, j \in DOMAIN cls} :
     \E i \in DOMAIN cls : cls[i].id = l[1] /\ Includes(cls[i].parentIds, l[2])}

\* the ids reachable from the set S by the links
RECURSIVE Upward(_, _)
Upward(links, S) ==
  LET step == S \cup {l[2] : l \in {m \in links : m[1] \in S}}
  IN IF step = S THEN S ELSE Upward(links, step)

\* reachable by one or more parent links
Ancestors(cls, childId) ==
  LET links == ParentLinks(cls)
  IN Upward(links, {l[2] : l \in {m \in links : m[1] = childId}})

\* C9: isDescendantOf(childId, ancestorId) is true exactly when ancestorId is
\* reachable from childId by one or more parentIds links between tags the store
\* holds
C9_IsTransitiveClosure ==
  descIn.childId # NoId =>
    (descOut <=> descIn.ancestorId \in Ancestors(descIn.cls, descIn.childId))

\* C9 witness: an ancestor that is no direct parent, found behind a parent that
\* lists itself first, from a child one of whose parents the store does not hold
C9_Witness ==
  /\ descIn.childId # NoId
  /\ descOut
  /\ LET cls == descIn.cls
         child == getClassification(cls, descIn.childId)
         parents == getParents(cls, descIn.childId)
     IN /\ ~Includes(child.parentIds, descIn.ancestorId)
        /\ Len(parents) < Len(child.parentIds)
        /\ \E i \in DOMAIN parents :
             /\ parents[i] # descIn.childId
             /\ getClassification(cls, parents[i]).parentIds[1] = parents[i]

(***************************************************************************)
(* isDescendantOf, one loop iteration at a time.                           *)
(***************************************************************************)
\* a slip: check() forgets what it has visited
Visited_Never(visits, currentId) == FALSE

\* visited.has(currentId)
Visited(visits, currentId) == Includes(visits, currentId)

\* isDescendantOf(childId, ancestorId) is entered: visited is empty and the outer
\* loop is about to run over getParents(childId). A frame is what a `for` loop has
\* left to iterate; visits lists, in order, every visited.add
enterIsDescendantOf(childId, ancestorId) ==
  /\ descIn.childId = NoId
  /\ descIn' = [descIn EXCEPT !.childId = childId, !.ancestorId = ancestorId,
                              !.frames = <<getParents(descIn.cls, childId)>>]
  /\ UNCHANGED <<descOut, wfVars, galleryBookmarks, authNav, filterIn, filterOut>>

\* one iteration of the innermost `for (const parent of parents)`, or its end
stepIsDescendantOf ==
  /\ descIn.childId # NoId
  /\ ~descIn.returned
  /\ LET depth == Len(descIn.frames)
         parents == descIn.frames[depth]
         outer == SubSeq(descIn.frames, 1, depth - 1)
     IN IF parents = <<>>
          THEN \* the loop is over: return false to the caller, or to the outside
               /\ descIn' = [descIn EXCEPT !.frames = outer, !.returned = (outer = <<>>)]
               /\ UNCHANGED descOut
        ELSE LET parent == Head(parents)
                 rest == Append(outer, Tail(parents))
                 grandparents == getParents(descIn.cls, parent)
             IN IF parent = descIn.ancestorId
                  THEN \* return true, through every caller
                       /\ descIn' = [descIn EXCEPT !.frames = <<>>, !.returned = TRUE]
                       /\ descOut' = TRUE
                ELSE IF Visited(descIn.visits, parent)
                  THEN /\ descIn' = [descIn EXCEPT !.frames = rest]
                       /\ UNCHANGED descOut
                ELSE /\ descIn' = [descIn EXCEPT
                                     !.visits = Append(@, parent),
                                     !.frames = IF grandparents = <<>> THEN rest
                                                ELSE Append(rest, grandparents)]
                     /\ UNCHANGED descOut
  /\ UNCHANGED <<wfVars, galleryBookmarks, authNav, filterIn, filterOut>>

InitDescendantRun ==
  /\ WorkflowIdle
  /\ authNav = <<>>
  /\ filterIn = <<>>
  /\ filterOut = <<>>
  /\ \E cls \in DescStores :
       descIn = [cls |-> cls, childId |-> NoId, ancestorId |-> NoId,
                 frames |-> <<>>, visits |-> <<>>, returned |-> FALSE]
  /\ descOut = FALSE

NextDescendantRun ==
  \/ \E childId, ancestorId \in DescIds : enterIsDescendantOf(childId, ancestorId)
  \/ stepIsDescendantOf

\* the JavaScript engine keeps running a synchronous call
SpecDescendantRun ==
  InitDescendantRun /\ [][NextDescendantRun]_vars /\ WF_vars(stepIsDescendantOf)

\* C14: a call of isDescendantOf returns, whatever the store holds (cycles and
\* self-parents included), and no tag is visited twice during the call
C14_TerminatesVisitingOnce ==
  /\ [](\A i, j \in DOMAIN descIn.visits : i # j => descIn.visits[i] # descIn.visits[j])
  /\ (descIn.childId # NoId) ~> descIn.returned

\* C14 witness: a call has returned false after walking a cycle of two tags, one
\* of which also lists itself as a parent
C14_Witness ==
  /\ descIn.returned /\ ~descOut
  /\ Len(descIn.visits) = 2
  /\ LET first == getClassification(descIn.cls, descIn.visits[1])
         second == getClassification(descIn.cls, descIn.visits[2])
     IN /\ Includes(first.parentIds, second.id)
        /\ Includes(second.parentIds, first.id)
        /\ Includes(second.parentIds, second.id)

====
